---------------------------- MODULE Spec2Model ----------------------------
(***************************************************************************)
(* A model of tfhe-go's key-lifecycle and execution-context layer:         *)
(* internal/tfhe (the cgo bindings and the BooleanService / Uint8Service   *)
(* wrappers).  Goroutines are tasks, OS threads are lanes, the engine's    *)
(* thread-local server key is the lane's ambient slot.  A step of a task   *)
(* is a stretch of its code that reads or writes what other goroutines     *)
(* can see, together with the local work around it: between two steps of   *)
(* a task the other tasks may take any number of theirs.                   *)
(***************************************************************************)
EXTENDS Integers, Sequences, FiniteSets, TLC

(***************************************************************************)
(* Bounds of the model.                                                    *)
(***************************************************************************)
NumTasks  == 2      \* goroutines running service operations
NumLanes  == 2      \* OS threads the scheduler may run a goroutine on
MaxOps    == 3      \* operations started in one run of the process
MaxFaults == 1      \* engine calls that return a nonzero status on valid input
MaxUSvc   == 2      \* Uint8Service constructions in one run
MaxBSvc   == 1      \* BooleanService constructions in one run

Tasks == 1..NumTasks
Lanes == 1..NumLanes
USvcs == 1..MaxUSvc
BSvcs == 1..MaxBSvc

(***************************************************************************)
(* Plain values.  uint8 arithmetic is modulo 2^8; the bitwise operators    *)
(* are computed bit by bit.                                                *)
(***************************************************************************)
Byte == 256

RECURSIVE Bits(_, _, _, _)
Bits(a, b, n, xor) ==
    IF n = 0 THEN 0
    ELSE LET x == a % 2
             y == b % 2
             bit == IF xor THEN (x + y) % 2 ELSE x * y
         IN  bit + 2 * Bits(a \div 2, b \div 2, n - 1, xor)

AddU8(a, b)    == (a + b) % Byte
BitAndU8(a, b) == Bits(a, b, 8, FALSE)
BitXorU8(a, b) == Bits(a, b, 8, TRUE)

(***************************************************************************)
(* encoding/base64 StdEncoding over sequences of bytes.  A string is a     *)
(* sequence of symbols: 0..63 the alphabet, Pad the '=' sign, anything     *)
(* larger a character outside the alphabet.                                *)
(***************************************************************************)
Pad == 64
B64Error == <<-1>>

\* An encoding that leaves the bytes as they are.
RawBytes(bs) == bs

RECURSIVE EncodeToString(_)
EncodeToString(bs) ==
    IF Len(bs) = 0 THEN <<>>
    ELSE IF Len(bs) = 1 THEN
        <<bs[1] \div 4, (bs[1] % 4) * 16, Pad, Pad>>
    ELSE IF Len(bs) = 2 THEN
        <<bs[1] \div 4, (bs[1] % 4) * 16 + bs[2] \div 16, (bs[2] % 16) * 4, Pad>>
    ELSE
        <<bs[1] \div 4, (bs[1] % 4) * 16 + bs[2] \div 16,
          (bs[2] % 16) * 4 + bs[3] \div 64, bs[3] % 64>>
        \o EncodeToString(SubSeq(bs, 4, Len(bs)))

RECURSIVE DecodeString(_)
DecodeString(s) ==
    IF Len(s) = 0 THEN <<>>
    ELSE IF Len(s) < 4 THEN B64Error
    ELSE LET a == s[1]
             b == s[2]
             c == s[3]
             d == s[4]
             last == Len(s) = 4
         IN  IF a >= Pad \/ b >= Pad \/ c > Pad \/ d > Pad THEN B64Error
             ELSE IF c = Pad THEN
                 IF d = Pad /\ last THEN <<a * 4 + b \div 16>> ELSE B64Error
             ELSE IF d = Pad THEN
                 IF last THEN <<a * 4 + b \div 16, (b % 16) * 16 + c \div 4>>
                 ELSE B64Error
             ELSE LET rest == DecodeString(SubSeq(s, 5, Len(s)))
                  IN  IF rest = B64Error THEN B64Error
                      ELSE <<a * 4 + b \div 16, (b % 16) * 16 + c \div 4,
                             (c % 4) * 64 + d>> \o rest

(***************************************************************************)
(* The engine's ciphertexts.  A ciphertext is [key, val]: the service      *)
(* whose client key encrypted it (0: no key decrypts it to anything        *)
(* meaningful) and its plaintext.  Its serialized form is three bytes:     *)
(* the family tag, the key and the plaintext.                              *)
(***************************************************************************)
BoolTag  == 1
Uint8Tag == 2
NoCt == [st |-> "none", key |-> 0, val |-> 0, tried |-> FALSE]

EngineSerialize(tag, ct) == <<tag, ct.key, ct.val>>

EngineValid(tag, bs) ==
    /\ Len(bs) = 3
    /\ bs[1] = tag
    /\ bs[2] \in 0..MaxUSvc
    /\ bs[3] \in (IF tag = BoolTag THEN 0..1 ELSE 0..(Byte - 1))

EngineDeserialize(bs) == [st |-> "live", key |-> bs[2], val |-> bs[3], tried |-> FALSE]

\* What decryption under a key that is not the ciphertext's yields: no
\* plaintext the model uses.
Garbage == Byte

\* Decryption under a client key that is not the one the ciphertext was
\* encrypted for.
PlainUnderOtherKey(ct, i) == Garbage

\* What a ciphertext decrypts to under the client key of service i.
Plain(ct, i) == IF ct.key = i /\ i # 0 THEN ct.val ELSE Garbage


(***************************************************************************)
(* Engine key objects.  The keys of the i-th service constructed are       *)
(* K("uck", i), K("usk", i), K("upk", i) (Uint8Service) and K("bck", i),   *)
(* K("bsk", i) (BooleanService).  A Go wrapper holds one engine object, so *)
(* a wrapper is named by the object it was made for.                       *)
(***************************************************************************)
K(kind, i) == [k |-> kind, s |-> i]
NoKey == K("none", 0)

VARIABLES
    alive,      \* engine key objects allocated and not destroyed
    ptr,        \* key wrappers whose ptr field is not nil
    wrappers,   \* key wrappers whose finalizer has not run
    ambient,    \* lane -> the server key set_server_key registered there
    holder,     \* defaultUint8ServerKeyHolder: 0 (nil) or the service whose server key it holds
    usvc,       \* Uint8Service structs: construction state and which fields are not nil
    bsvc,       \* BooleanService structs, likewise
    task,       \* goroutines: the operation each runs, its position and its locals
    faults,     \* engine failures on valid input still to come
    opsLeft,    \* operations still to be started
    ecalls,     \* the calls out of Go made by the last step, in order
    done,       \* the operation that returned in the last step, as it returned
    crashed     \* the process died in the engine (undefined behaviour)

vars == <<alive, ptr, wrappers, ambient, holder, usvc, bsvc, task, faults, opsLeft, ecalls, done, crashed>>

NoSvc == [st |-> "none", client |-> FALSE, server |-> FALSE, public |-> FALSE]

\* Where a caller got the ciphertext it sends: the operation that returned
\* it, on which service, for which plaintext.
NoSent == [op |-> "none", sv |-> 0, val |-> 0]

IdleTask == [pc |-> "idle", op |-> "none", sv |-> 0, in1 |-> <<>>, in2 |-> <<>>,
             val |-> 0, plain |-> Garbage, lhs |-> NoCt, rhs |-> NoCt, out |-> NoCt, kp |-> NoKey,
             lane |-> 0, bindLane |-> 0, unbindLane |-> 0, callLane |-> 0,
             boundKey |-> NoKey, recv |-> FALSE, res |-> <<>>, err |-> FALSE,
             msg |-> "", direct |-> FALSE, nilArg |-> FALSE,
             nilKey |-> FALSE, sent |-> NoSent, trace |-> <<>>]

(***************************************************************************)
(* A call out of Go as the last step made it: the primitive, the key handle *)
(* it was given (NoKey: none, or a ciphertext of the caller's own), the    *)
(* lane it ran on when it reads or writes the lane's ambient slot, the     *)
(* slot's content before the call, whether the handle had been destroyed,  *)
(* and whether the call returned status 0.                                 *)
(***************************************************************************)
Call(f, h, lane, o) ==
    [f |-> f, h |-> h, lane |-> lane,
     prior |-> IF lane = 0 THEN NoKey ELSE ambient[lane],
     dangling |-> h # NoKey /\ h \notin alive, ok |-> o = "ok", arg |-> ""]

\* The calls of a sequence, as made for the operand `a` of an operation.
On(calls, a) == [n \in DOMAIN calls |-> [calls[n] EXCEPT !.arg = a]]

\* A call on an object the caller has just been given by the engine.
CallNew(f, h, lane, o) == [Call(f, h, lane, o) EXCEPT !.dangling = FALSE]

(***************************************************************************)
(* check: a nonzero status is an error.  The engine returns a nonzero      *)
(* status on valid input while the fault budget lasts; handed a destroyed  *)
(* object its behaviour is undefined: it may succeed, fail or crash.       *)
(***************************************************************************)
Outcomes == {"ok", "fail", "crash"}

Legal(o, valid) ==
    IF valid THEN o = "ok" \/ (o = "fail" /\ faults > 0) ELSE TRUE

Spend(o, valid) == IF valid /\ o = "fail" THEN faults - 1 ELSE faults

check(o) == o # "ok"

(***************************************************************************)
(* The Go scheduler: a goroutine that holds LockOSThread runs on its lane  *)
(* and nothing else does; any other goroutine runs each step on any lane   *)
(* no goroutine is locked to.                                              *)
(***************************************************************************)
\* A scheduler that runs a goroutine on any lane, locked to or not.
AnyLane(t) == Lanes

RunsOn(t) ==
    IF task[t].lane # 0 THEN {task[t].lane}
    ELSE {l \in Lanes : \A u \in Tasks : task[u].lane # l}

Set(t, r) == [task EXCEPT ![t] = r]

\* Task t goes on as r; when r is a return the goroutine is free again and
\* the operation is kept as it returned until the next step.
Moves(t, r) ==
    /\ task' = Set(t, IF r.pc = "ret" THEN IdleTask ELSE r)
    /\ done' = IF r.pc = "ret" THEN r ELSE IdleTask

(***************************************************************************)
(* Closing a key wrapper.  Each Close returns at once on a nil wrapper or  *)
(* a nil ptr; otherwise it calls the engine's destroy and, when that       *)
(* returns 0, sets ptr to nil.  k is the wrapper (NoKey: a nil wrapper),   *)
(* o the status the destroy returns, and the result is the state after the *)
(* call with the calls made and the error returned.                        *)
(***************************************************************************)
CloseResult(al, pt, am, calls, err) ==
    [alive |-> al, ptr |-> pt, ambient |-> am, calls |-> calls, err |-> err]

\* A Close that forgets to set ptr to nil after the destroy.
DestroyKeepsPtr(name, k, o, am, calls) ==
    IF k = NoKey \/ k \notin ptr
    THEN CloseResult(alive, ptr, ambient, <<>>, FALSE)
    ELSE LET cs == calls \o <<Call(name, k, 0, o)>>
         IN  IF check(o) THEN CloseResult(alive, ptr, am, cs, TRUE)
             ELSE CloseResult(alive \ {k}, ptr, am, cs, FALSE)

DestroyKey(name, k, o, am, calls) ==
    IF k = NoKey \/ k \notin ptr
    THEN CloseResult(alive, ptr, ambient, <<>>, FALSE)
    ELSE LET cs == calls \o <<Call(name, k, 0, o)>>
         IN  IF check(o) THEN CloseResult(alive, ptr, am, cs, TRUE)
             ELSE CloseResult(alive \ {k}, ptr \ {k}, am, cs, FALSE)

ClientKeyClose(k, o) == DestroyKey("boolean_destroy_client_key", k, o, ambient, <<>>)

ServerKeyClose(k, o) == DestroyKey("boolean_destroy_server_key", k, o, ambient, <<>>)

Uint8ClientKeyClose(k, o) == DestroyKey("client_key_destroy", k, o, ambient, <<>>)

Uint8PublicKeyClose(k, o) == DestroyKey("public_key_destroy", k, o, ambient, <<>>)

\* A Uint8ServerKey.Close that calls unset_server_key before its nil check.
UnsetBeforeNilCheck(k, o, l) ==
    LET un == <<Call("unset_server_key", NoKey, l, "ok")>>
        am == [ambient EXCEPT ![l] = NoKey]
    IN  IF k = NoKey \/ k \notin ptr THEN CloseResult(alive, ptr, am, un, FALSE)
        ELSE DestroyKey("server_key_destroy", k, o, am, un)

\* Uint8ServerKey.Close also calls unset_server_key on the lane it runs on,
\* after the nil check and before the destroy; its status is ignored.
Uint8ServerKeyClose(k, o, l) ==
    DestroyKey("server_key_destroy", k, o, [ambient EXCEPT ![l] = NoKey],
               <<Call("unset_server_key", NoKey, l, "ok")>>)

(***************************************************************************)
(* Closing a ciphertext wrapper, a local of the operation that made it.    *)
(* tried records that destroy was called on it.                            *)
(***************************************************************************)
CtDestroyName(tag) ==
    IF tag = BoolTag THEN "boolean_destroy_ciphertext" ELSE "fhe_uint8_destroy"

CiphertextClose(ct, o) ==
    IF ct.st # "live" THEN ct
    ELSE IF check(o) THEN [ct EXCEPT !.tried = TRUE]
    ELSE [ct EXCEPT !.st = "freed", !.tried = TRUE]

CloseCalls(tag, ct, o) ==
    IF ct.st # "live" THEN <<>> ELSE <<Call(CtDestroyName(tag), NoKey, 0, o)>>

Failed(ct, o) == IF ct.st = "live" /\ check(o) THEN 1 ELSE 0

(***************************************************************************)
(* Ciphertexts on the wire: base64 of the engine's serialization.          *)
(***************************************************************************)
DeserResult(err, ct, calls, spent) ==
    [err |-> err, ct |-> ct, calls |-> calls, spent |-> spent]

\* DeserializeCiphertext / Uint8Deserialize: empty data is refused before the
\* engine is called; the engine refuses bytes that are no ciphertext of the
\* family.
DeserializeBytes(tag, data, o) ==
    LET name == IF tag = BoolTag THEN "boolean_deserialize_ciphertext"
                ELSE "fhe_uint8_deserialize"
    IN  IF Len(data) = 0 THEN DeserResult(TRUE, NoCt, <<>>, 0)
        ELSE IF ~EngineValid(tag, data)
        THEN DeserResult(TRUE, NoCt, <<Call(name, NoKey, 0, "fail")>>, 0)
        ELSE IF check(o)
        THEN DeserResult(TRUE, NoCt, <<Call(name, NoKey, 0, o)>>, 1)
        ELSE DeserResult(FALSE, EngineDeserialize(data), <<Call(name, NoKey, 0, o)>>, 0)

\* A deserialize that hands the engine whatever text it is given.
DeserializeAnyText(tag, s, o) ==
    DeserializeBytes(tag, IF DecodeString(s) = B64Error THEN s ELSE DecodeString(s), o)

\* deserialize / deserializeUint8 of service.go.
DeserializeBase64(tag, s, o) ==
    IF s = <<>> THEN DeserResult(TRUE, NoCt, <<>>, 0)
    ELSE LET raw == DecodeString(s)
         IN  IF raw = B64Error THEN DeserResult(TRUE, NoCt, <<>>, 0)
             ELSE DeserializeBytes(tag, raw, o)

\* The error deserialize / deserializeUint8 returns on s when it returns one:
\* its own, the decoder's, the binding's, or check's on the engine call.
DeserError(tag, s) ==
    IF s = <<>> THEN "ciphertext is empty"
    ELSE IF DecodeString(s) = B64Error THEN "illegal base64 data"
    ELSE IF Len(DecodeString(s)) = 0 THEN "ciphertext data is empty"
    ELSE IF tag = BoolTag THEN "boolean_deserialize_ciphertext"
    ELSE "fhe_uint8_deserialize"

deserialize(s, o) == DeserializeBase64(BoolTag, s, o)

deserializeUint8(s, o) == DeserializeBase64(Uint8Tag, s, o)

\* A Serialize that calls the engine once more when it has failed.
SerializeRetried(tag, ct, o) ==
    LET name == IF tag = BoolTag THEN "boolean_serialize_ciphertext"
                ELSE "fhe_uint8_serialize"
        c == Call(name, NoKey, 0, o)
    IN  IF ct.st # "live" THEN [err |-> TRUE, res |-> <<>>, calls |-> <<>>]
        ELSE IF check(o) THEN [err |-> TRUE, res |-> <<>>, calls |-> <<c, c>>]
        ELSE [err |-> FALSE, res |-> EngineSerialize(tag, ct),
              calls |-> <<c, Call("destroy_dynamic_buffer", NoKey, 0, "ok")>>]

\* A Serialize that returns on an empty buffer before it has arranged for
\* the buffer to be destroyed.
SerializeLeaksEmpty(tag, ct, o, buf) ==
    LET name == IF tag = BoolTag THEN "boolean_serialize_ciphertext"
                ELSE "fhe_uint8_serialize"
        c == Call(name, NoKey, 0, o)
    IN  IF ct.st # "live" THEN [err |-> TRUE, res |-> <<>>, calls |-> <<>>]
        ELSE IF check(o) THEN [err |-> TRUE, res |-> <<>>, calls |-> <<c>>]
        ELSE IF Len(buf) = 0 THEN [err |-> FALSE, res |-> <<>>, calls |-> <<c>>]
        ELSE [err |-> FALSE, res |-> buf,
              calls |-> <<c, Call("destroy_dynamic_buffer", NoKey, 0, "ok")>>]

\* Serialize / Uint8Serialize: after the nil check the engine fills a
\* buffer (buf is what it puts there); once that has succeeded the
\* destroy of the buffer is deferred, and the bytes are copied out, an
\* empty buffer giving an empty slice.
SerializeBuffer(tag, ct, o, buf) ==
    LET name == IF tag = BoolTag THEN "boolean_serialize_ciphertext"
                ELSE "fhe_uint8_serialize"
    IN  IF ct.st # "live" THEN [err |-> TRUE, res |-> <<>>, calls |-> <<>>]
        ELSE IF check(o)
        THEN [err |-> TRUE, res |-> <<>>, calls |-> <<Call(name, NoKey, 0, o)>>]
        ELSE [err |-> FALSE, res |-> IF Len(buf) = 0 THEN <<>> ELSE buf,
              calls |-> <<Call(name, NoKey, 0, o),
                          Call("destroy_dynamic_buffer", NoKey, 0, "ok")>>]

\* Serialize / Uint8Serialize of a ciphertext the engine made.
Serialize(tag, ct, o) == SerializeBuffer(tag, ct, o, EngineSerialize(tag, ct))

\* Serialize / Uint8Serialize, then EncodeToString.
SerializeToBase64(tag, ct, o) ==
    LET sr == Serialize(tag, ct, o)
    IN  [sr EXCEPT !.res = IF sr.err THEN <<>> ELSE EncodeToString(sr.res)]

serializeToBase64(ct, o) == SerializeToBase64(BoolTag, ct, o)

serializeUint8ToBase64(ct, o) == SerializeToBase64(Uint8Tag, ct, o)

Wire(tag, i, v) == EncodeToString(<<tag, i, v>>)



(***************************************************************************)
(* Operations.  A new operation runs on a goroutine of its own;            *)
(* goroutines are alike, so it is given the first one that runs nothing.   *)
(***************************************************************************)
Idle(t) == task[t].pc = "idle"

Ready(t) == ~crashed /\ opsLeft > 0 /\ Idle(t) /\ \A u \in Tasks : u < t => ~Idle(u)

At(t, pc) == ~crashed /\ task[t].pc = pc

Begin(op, sv) == [IdleTask EXCEPT !.op = op, !.sv = sv]

Fail(r) == [r EXCEPT !.pc = "finish", !.err = TRUE]

\* The error a function returns: errors.New(m), or check's error on the
\* primitive m.
FailWith(r, m) == [Fail(r) EXCEPT !.msg = m]

UOps == {"Encrypt", "EncryptWithPublic", "Decrypt", "Add", "BitAnd", "BitXor"}
UBinary == {"Add", "BitAnd", "BitXor"}
BGates == {"And", "Or", "Xor", "Not"}
BOps == BGates \cup {"EncryptBool", "DecryptBool"}
Unary == {"Decrypt", "DecryptBool", "Not"}

Tag(op) == IF op \in UOps THEN Uint8Tag ELSE BoolTag

Binary == {"ok", "fail"}

(***************************************************************************)
(* The tail of a service method (service.go): the result, if the           *)
(* binding-level call made one, is serialized, and the deferred Close      *)
(* calls run, last deferred first: out, rhs, lhs.  Their errors are        *)
(* dropped.                                                                *)
(***************************************************************************)
\* Close calls that run only when the method returns no error.
ClosesOnSuccess(r) ==
    [out |-> ~r.err /\ r.out.st = "live", rhs |-> ~r.err /\ r.rhs.st = "live",
     lhs |-> ~r.err /\ r.lhs.st = "live"]

\* Which of an operation's handles have their Close deferred when it
\* returns: every one it has made, on every path.
DeferredCloses(r) ==
    [out |-> r.out.st = "live", rhs |-> r.rhs.st = "live", lhs |-> r.lhs.st = "live"]

\* A service method closes the handles it made; a function of the binding
\* called by itself hands its result to its caller and closes nothing.
Closes(r) ==
    IF r.direct THEN [out |-> FALSE, rhs |-> FALSE, lhs |-> FALSE]
    ELSE DeferredCloses(r)

Serializes(r) == ~r.direct /\ ~r.err /\ r.out.st = "live"

Return(r, os, o1, o2, o3) ==
    LET tag == Tag(r.op)
        sr == IF Serializes(r) THEN SerializeToBase64(tag, r.out, os)
              ELSE [err |-> r.err, res |-> r.res, calls |-> <<>>]
        d == Closes(r)
    IN  [task |-> [r EXCEPT !.pc = "ret", !.res = sr.res, !.err = sr.err,
                            !.msg = IF sr.err /\ ~r.err THEN sr.calls[1].f ELSE r.msg,
                            !.out = IF d.out THEN CiphertextClose(r.out, o1) ELSE r.out,
                            !.rhs = IF d.rhs THEN CiphertextClose(r.rhs, o2) ELSE r.rhs,
                            !.lhs = IF d.lhs THEN CiphertextClose(r.lhs, o3) ELSE r.lhs],
         calls |-> On(sr.calls, "out")
                   \o (IF d.out THEN On(CloseCalls(tag, r.out, o1), "out") ELSE <<>>)
                   \o (IF d.rhs THEN On(CloseCalls(tag, r.rhs, o2), "rhs") ELSE <<>>)
                   \o (IF d.lhs THEN On(CloseCalls(tag, r.lhs, o3), "lhs") ELSE <<>>),
         spent |-> (IF Serializes(r) /\ check(os) THEN 1 ELSE 0)
                   + (IF d.out THEN Failed(r.out, o1) ELSE 0)
                   + (IF d.rhs THEN Failed(r.rhs, o2) ELSE 0)
                   + (IF d.lhs THEN Failed(r.lhs, o3) ELSE 0)]

\* The statuses a call may return on valid input: a status is chosen only
\* for a call that is made.
May(made) == IF made /\ faults > 0 THEN Binary ELSE {"ok"}

\* The end of a step of task t, which leaves its record as r after making
\* `calls`, `spent` of them failing on valid input: at "finish" the method
\* returns through its tail in the same step.
Step(t, r, calls, spent) ==
    LET fin == r.pc = "finish"
        d == Closes(r)
    IN  \E os \in May(fin /\ Serializes(r)), o1 \in May(fin /\ d.out),
           o2 \in May(fin /\ d.rhs), o3 \in May(fin /\ d.lhs) :
        LET tl == IF fin THEN Return(r, os, o1, o2, o3)
                  ELSE [task |-> r, calls |-> <<>>, spent |-> 0]
        IN  /\ spent + tl.spent <= faults
            /\ Moves(t, [tl.task EXCEPT !.trace = @ \o calls \o tl.calls])
            /\ ecalls' = calls \o tl.calls
            /\ faults' = faults - (spent + tl.spent)

\* The operands of a method are deserialized, lhs first.  An error on lhs
\* returns before any Close is deferred; an error on rhs returns through the
\* deferred lhs.Close.
Deserialized(r, o1, o2) ==
    LET tag == Tag(r.op)
        r1 == DeserializeBase64(tag, r.in1, o1)
        r2 == IF r1.err \/ r.op \in Unary THEN DeserResult(FALSE, NoCt, <<>>, 0)
              ELSE DeserializeBase64(tag, r.in2, o2)
    IN  [task |-> IF r1.err THEN FailWith(r, DeserError(tag, r.in1))
                  ELSE IF r2.err
                  THEN FailWith([r EXCEPT !.lhs = r1.ct], DeserError(tag, r.in2))
                  ELSE [r EXCEPT !.lhs = r1.ct, !.rhs = r2.ct],
         calls |-> On(r1.calls, "lhs") \o On(r2.calls, "rhs"),
         spent |-> r1.spent + r2.spent,
         called |-> (r1.spent = 0 => o1 = "ok") /\ (r2.spent = 0 => o2 = "ok")]

\* lhs was refused: rhs is never looked at, so one rhs stands for all.
Refused(r) == r.lhs.st = "none"

\* A Nil handle: a nil wrapper, or a wrapper whose ptr is nil.
Nil(k) == k = NoKey \/ k \notin ptr

NilCt(ct) == ct.st # "live"

\* A function that goes on to the engine with whatever key it is given.
KeyUnchecked(r, nonNil, k, next) ==
    IF r.pc = "finish" THEN r ELSE [r EXCEPT !.pc = next, !.kp = k]

\* The nil check of a key wrapper at the head of a binding-level function:
\* on success the function goes on to its engine call with the wrapper's ptr.
KeyChecked(r, nonNil, k, next) ==
    IF r.pc = "finish" THEN r
    ELSE IF ~nonNil \/ k \notin ptr THEN FailWith(r, "key is nil")
    ELSE [r EXCEPT !.pc = next, !.kp = k]

\* A method that begins by registering the integer server key of its
\* service on the first lane.
StartedBound(t, r, calls, spent) ==
    /\ Step(t, r, calls, spent)
    /\ opsLeft' = opsLeft - 1
    /\ ambient' = [ambient EXCEPT ![1] = K("usk", 1)]
    /\ UNCHANGED <<wrappers, alive, ptr, holder, usvc, bsvc, crashed>>

Started(t, r, calls, spent) ==
    /\ Step(t, r, calls, spent)
    /\ opsLeft' = opsLeft - 1
    /\ UNCHANGED <<wrappers, alive, ptr, ambient, holder, usvc, bsvc, crashed>>

(***************************************************************************)
(* The service methods up to their first engine call on a key: the key     *)
(* field of the struct is read and the wrapper checked.  A caller starts   *)
(* a method on a service it holds, one whose constructor returned it, with *)
(* inputs drawn from the sets given.                                       *)
(***************************************************************************)
\* What the operation before returned, which a caller may send back.
Sent == IF done.res = <<>> THEN {} ELSE {done.res}

SentBack(a) ==
    IF a \in Sent THEN [op |-> done.op, sv |-> done.sv, val |-> done.val] ELSE NoSent

UReady == {i \in USvcs : usvc[i].st = "ok"}
BReady == {i \in BSvcs : bsvc[i].st = "ok"}

\* Uint8Service.Encrypt / EncryptWithPublic, to the nil check of
\* EncryptUint8 / EncryptUint8Public
Uint8ServiceEncrypt(t, ops, vals) ==
    /\ Ready(t)
    /\ \E op \in ops, i \in UReady, v \in vals :
        LET r == [Begin(op, i) EXCEPT !.val = v]
        IN  Started(t, IF op = "Encrypt"
                       THEN KeyChecked(r, usvc[i].client, K("uck", i), "call")
                       ELSE KeyChecked(r, usvc[i].public, K("upk", i), "call"),
                    <<>>, 0)

\* Uint8Service.Decrypt, to the nil check of DecryptUint8
Uint8ServiceDecrypt(t, ins) ==
    /\ Ready(t)
    /\ \E i \in UReady, a \in ins, o1 \in May(TRUE) :
        LET d == Deserialized([Begin("Decrypt", i) EXCEPT
                                 !.in1 = a, !.sent = SentBack(a)], o1, "ok")
        IN  /\ d.called
            /\ Started(t, KeyChecked(d.task, usvc[i].client, K("uck", i), "call"),
                       d.calls, d.spent)

\* BooleanService.EncryptBoolToBase64, to the nil check of EncryptBool
BooleanServiceEncrypt(t) ==
    /\ Ready(t)
    /\ \E i \in BReady, v \in {0, 1} :
        Started(t, KeyChecked([Begin("EncryptBool", i) EXCEPT !.val = v],
                              bsvc[i].client, K("bck", i), "call"), <<>>, 0)

\* BooleanService.DecryptBoolFromBase64, to the nil check of DecryptBool
BooleanServiceDecrypt(t, ins) ==
    /\ Ready(t)
    /\ \E i \in BReady, a \in ins, o1 \in May(TRUE) :
        LET d == Deserialized([Begin("DecryptBool", i) EXCEPT
                                 !.in1 = a, !.sent = SentBack(a)], o1, "ok")
        IN  /\ d.called
            /\ Started(t, KeyChecked(d.task, bsvc[i].client, K("bck", i), "call"),
                       d.calls, d.spent)

\* BooleanService.AndBase64 / OrBase64 / XorBase64 (binaryOp) and NotBase64,
\* to the nil check of ServerKey.And / Or / Xor / Not
BooleanServiceGate(t, ops, ins) ==
    /\ Ready(t)
    /\ \E op \in ops, i \in BReady, a \in ins, b \in ins, o1, o2 \in May(TRUE) :
        LET d == Deserialized([Begin(op, i) EXCEPT
                                 !.in1 = a, !.in2 = IF op = "Not" THEN <<>> ELSE b],
                              o1, o2)
        IN  /\ (op = "Not" \/ Refused(d.task)) => b = a
            /\ d.called
            /\ Started(t, KeyChecked(d.task, bsvc[i].server, K("bsk", i), "call"),
                       d.calls, d.spent)

defaultUint8ServerKey == IF holder = 0 THEN NoKey ELSE K("usk", holder)

\* Uint8Service.Add / BitAnd / BitXor (binaryUint8), through Uint8Add /
\* Uint8BitAnd / Uint8BitXor to the nil check of withServerKey on
\* defaultUint8ServerKey()
Uint8ServiceBinary(t, ops, ins) ==
    /\ Ready(t)
    /\ \E op \in ops, i \in UReady, a \in ins, b \in ins, o1, o2 \in May(TRUE) :
        LET d == Deserialized([Begin(op, i) EXCEPT !.in1 = a, !.in2 = b], o1, o2)
            sk == defaultUint8ServerKey
        IN  /\ Refused(d.task) => b = a
            /\ d.called
            /\ Started(t, KeyChecked([d.task EXCEPT
                                         !.nilKey = d.task.pc # "finish" /\ Nil(sk)],
                                      sk # NoKey, sk, "bind"), d.calls, d.spent)

(***************************************************************************)
(* The engine call of a binding-level function on the key it checked.      *)
(***************************************************************************)
\* Every method wired to the engine's OR.
OrForAll(op, a, b) == IF a + b > 0 THEN 1 ELSE 0

Gate(op, a, b) ==
    CASE op = "And" -> a * b
      [] op = "Or" -> IF a + b > 0 THEN 1 ELSE 0
      [] op = "Xor" -> (a + b) % 2
      [] op = "Not" -> 1 - a

\* What the engine call of an operation yields when it returns 0: under a
\* destroyed key, or on ciphertexts of another key, nothing meaningful.
KeyedResult(r, sound) ==
    LET i == IF sound THEN r.kp.s ELSE 0
        ct(key, val) == [st |-> "live", key |-> key, val |-> val, tried |-> FALSE]
        same == r.lhs.key = i /\ (r.op = "Not" \/ r.rhs.key = i) /\ i # 0
    IN  CASE r.op \in {"Encrypt", "EncryptWithPublic", "EncryptBool"} ->
                [r EXCEPT !.pc = "finish", !.out = ct(i, IF i = 0 THEN 0 ELSE r.val)]
          [] r.op \in {"Decrypt", "DecryptBool"} ->
                [r EXCEPT !.pc = "finish", !.plain = Plain(r.lhs, i)]
          [] r.op \in BGates ->
                [r EXCEPT !.pc = "finish",
                          !.out = IF same THEN ct(i, Gate(r.op, r.lhs.val, r.rhs.val))
                                  ELSE ct(0, 0)]

Keyed(t, op, name) ==
    /\ At(t, "call")
    /\ task[t].op = op
    /\ \E o \in Outcomes :
        LET r == task[t]
            valid == r.kp \in alive
            c == <<Call(name, r.kp, 0, o)>>
        IN  /\ Legal(o, valid)
            /\ IF o = "crash"
               THEN /\ crashed' = TRUE
                    /\ ecalls' = c
                    /\ UNCHANGED <<task, done, faults>>
               ELSE /\ crashed' = crashed
                    /\ Step(t, IF check(o) THEN FailWith(r, name)
                               ELSE KeyedResult(r, valid),
                            c, IF valid /\ check(o) THEN 1 ELSE 0)
    /\ UNCHANGED <<wrappers, alive, ptr, ambient, holder, usvc, bsvc, opsLeft>>

EncryptUint8(t) == Keyed(t, "Encrypt", "fhe_uint8_try_encrypt_with_client_key_u8")

EncryptUint8Public(t) ==
    Keyed(t, "EncryptWithPublic", "fhe_uint8_try_encrypt_with_public_key_u8")

DecryptUint8(t) == Keyed(t, "Decrypt", "fhe_uint8_decrypt")

EncryptBool(t) == Keyed(t, "EncryptBool", "boolean_client_key_encrypt")

DecryptBool(t) == Keyed(t, "DecryptBool", "boolean_client_key_decrypt")

And(t) == Keyed(t, "And", "boolean_server_key_and")

Or(t) == Keyed(t, "Or", "boolean_server_key_or")

Xor(t) == Keyed(t, "Xor", "boolean_server_key_xor")

Not(t) == Keyed(t, "Not", "boolean_server_key_not")

(***************************************************************************)
(* withServerKey(sk, fn), after its nil check: LockOSThread,               *)
(* set_server_key(sk.ptr), the deferred unset_server_key and               *)
(* UnlockOSThread, and fn between.                                         *)
(***************************************************************************)
HomOp(op, a, b) ==
    CASE op = "Add" -> AddU8(a, b)
      [] op = "BitAnd" -> BitAndU8(a, b)
      [] op = "BitXor" -> BitXorU8(a, b)

HomName(op) ==
    CASE op = "Add" -> "fhe_uint8_add"
      [] op = "BitAnd" -> "fhe_uint8_bitand"
      [] op = "BitXor" -> "fhe_uint8_bitxor"

\* The engine evaluates under the server key registered on the calling lane;
\* under the key of another service the result decrypts to nothing meaningful.
HomResult(op, lhs, rhs, amb) ==
    IF amb.s = lhs.key /\ amb.s = rhs.key /\ amb.s # 0
    THEN [st |-> "live", key |-> amb.s, val |-> HomOp(op, lhs.val, rhs.val),
          tried |-> FALSE]
    ELSE [st |-> "live", key |-> 0, val |-> 0, tried |-> FALSE]

\* A goroutine that is not kept on its lane.
NoPin(l) == 0

\* runtime.LockOSThread on lane l: the lane the goroutine stays on until
\* UnlockOSThread.
LockOSThread(l) == l

\* An unset_server_key that runs only when fn returned no error.
UnsetOnSuccess(err) == ~err

\* Whether the unset_server_key deferred after a successful set_server_key
\* runs when fn returned err: a deferred call runs on every return.
DeferredUnset(err) == TRUE

Pin(f, l) == Call(f, NoKey, l, "ok")

\* LockOSThread and set_server_key(sk.ptr).  When set_server_key fails only
\* the deferred UnlockOSThread runs.
withServerKeyBind(t) ==
    /\ At(t, "bind")
    /\ \E l \in RunsOn(t), o \in Outcomes :
        LET r == task[t]
            valid == r.kp \in alive
            c == <<Pin("LockOSThread", l), Call("set_server_key", r.kp, l, o)>>
        IN  /\ Legal(o, valid)
            /\ IF o = "crash"
               THEN /\ crashed' = TRUE
                    /\ ecalls' = c
                    /\ UNCHANGED <<task, done, faults, ambient>>
               ELSE IF check(o)
               THEN /\ crashed' = crashed
                    /\ ambient' = ambient
                    /\ Step(t, FailWith(r, "set_server_key"),
                            c \o <<Pin("UnlockOSThread", l)>>,
                            IF valid THEN 1 ELSE 0)
               ELSE /\ crashed' = crashed
                    /\ ambient' = [ambient EXCEPT ![l] = r.kp]
                    /\ Step(t, [r EXCEPT !.pc = "fn", !.lane = LockOSThread(l),
                                         !.bindLane = l, !.boundKey = r.kp], c, 0)
    /\ UNCHANGED <<wrappers, alive, ptr, holder, usvc, bsvc, opsLeft>>

\* fn, the engine's operation on the two ciphertexts, which fails when no
\* server key is registered on the lane it runs on; then the deferred
\* unset_server_key and UnlockOSThread, and the rest of the method.
withServerKeyFn(t) ==
    /\ At(t, "fn")
    /\ \E lf \in RunsOn(t), lu \in RunsOn(t), o \in Binary :
        LET r == task[t]
            amb == ambient[lf]
            un == DeferredUnset(check(o))
            r1 == [r EXCEPT !.pc = "finish", !.lane = 0, !.callLane = lf,
                            !.unbindLane = IF un THEN lu ELSE 0]
        IN  /\ IF amb = NoKey THEN o = "fail" ELSE Legal(o, TRUE)
            /\ ambient' = IF un THEN [ambient EXCEPT ![lu] = NoKey] ELSE ambient
            /\ Step(t, IF check(o) THEN [r1 EXCEPT !.err = TRUE, !.msg = HomName(r.op)]
                       ELSE [r1 EXCEPT !.out = HomResult(r.op, r.lhs, r.rhs, amb)],
                    <<Call(HomName(r.op), NoKey, lf, o)>>
                    \o (IF un THEN <<Call("unset_server_key", NoKey, lu, "ok")>>
                        ELSE <<>>)
                    \o <<Pin("UnlockOSThread", lu)>>,
                    IF amb # NoKey /\ check(o) THEN 1 ELSE 0)
    /\ UNCHANGED <<wrappers, alive, ptr, holder, usvc, bsvc, opsLeft, crashed>>

(***************************************************************************)
(* NewUint8Service: GenerateUint8Keys, NewUint8PublicKey, the struct.      *)
(***************************************************************************)
FreeUSvc == {i \in USvcs : usvc[i].st = "none"}

NextUSvc == CHOOSE i \in FreeUSvc : \A j \in FreeUSvc : i <= j

Returned(r, err) == [r EXCEPT !.pc = "ret", !.err = err]

\* GenerateUint8Keys through set_server_key: config_builder_default,
\* config_builder_build, generate_keys, then set_server_key(sk) on whatever
\* lane the goroutine is on.  The first call that fails returns the error;
\* when it is set_server_key, ck and sk have been created and are not
\* destroyed.
GenerateUint8Keys(t) ==
    /\ Ready(t)
    /\ FreeUSvc # {}
    /\ \E o \in Binary, n \in 1..4, l \in RunsOn(t) :
        LET i == NextUSvc
            sk == K("usk", i)
            r == Begin("NewUint8Service", i)
            names == <<"config_builder_default", "config_builder_build",
                       "generate_keys", "set_server_key">>
            st(j) == IF j = n THEN o ELSE "ok"
        IN  /\ Legal(o, TRUE)
            /\ o = "ok" => n = 4
            /\ n < 4 => l = CHOOSE m \in RunsOn(t) : TRUE
            /\ ecalls' = [j \in 1..n |-> IF j = 4 THEN CallNew(names[j], sk, l, st(j))
                                         ELSE Call(names[j], NoKey, 0, st(j))]
            /\ faults' = Spend(o, TRUE)
            /\ alive' = IF n = 4 THEN alive \cup {K("uck", i), sk} ELSE alive
            /\ ambient' = IF check(o) THEN ambient ELSE [ambient EXCEPT ![l] = sk]
            /\ Moves(t, IF check(o) THEN Returned(r, TRUE)
                              ELSE [r EXCEPT !.pc = "wrap"])
            /\ usvc' = [usvc EXCEPT ![i].st = IF check(o) THEN "failed" ELSE "building"]
    /\ opsLeft' = opsLeft - 1
    /\ UNCHANGED <<wrappers, ptr, holder, bsvc, crashed>>

\* A NewUint8PublicKey that does not look at the wrapper it is given.
DeriveUnchecked(ck, pt, o) ==
    [err |-> check(o), calls |-> <<Call("public_key_new", ck, 0, o)>>]

\* NewUint8PublicKey(ck): the nil check, then public_key_new.
NewUint8PublicKey(ck, pt, o) ==
    IF ck \notin pt THEN [err |-> TRUE, calls |-> <<>>]
    ELSE [err |-> check(o), calls |-> <<Call("public_key_new", ck, 0, o)>>]

\* The rest of GenerateUint8Keys (the wrappers, setServerKeyHolder(server),
\* the finalizers), then NewUint8PublicKey(ck) and the Uint8Service struct.
\* When NewUint8PublicKey fails NewUint8Service returns the error and closes
\* nothing.
NewUint8Service(t) ==
    /\ At(t, "wrap")
    /\ \E o \in Binary :
        LET i == task[t].sv
            ck == K("uck", i)
            pk == K("upk", i)
            pt == ptr \cup {ck, K("usk", i)}
            p == NewUint8PublicKey(ck, pt, o)
        IN  /\ Legal(o, TRUE)
            /\ holder' = i
            /\ ecalls' = p.calls
            /\ faults' = Spend(o, TRUE)
            /\ Moves(t, Returned(task[t], p.err))
            /\ alive' = IF p.err THEN alive ELSE alive \cup {pk}
            /\ ptr' = IF p.err THEN pt ELSE pt \cup {pk}
            /\ wrappers' = wrappers \cup (IF p.err THEN {ck, K("usk", i)}
                                            ELSE {ck, K("usk", i), pk})
            /\ usvc' = [usvc EXCEPT ![i] =
                          IF p.err THEN [NoSvc EXCEPT !.st = "failed"]
                          ELSE [st |-> "ok", client |-> TRUE, server |-> TRUE,
                                public |-> TRUE]]
    /\ UNCHANGED <<ambient, bsvc, opsLeft, crashed>>

(***************************************************************************)
(* Uint8Service.Close: public, client, server.  Each field that is not nil *)
(* is closed and set to nil whatever its Close returned; the first error   *)
(* is the one returned.                                                    *)
(***************************************************************************)
NoClose == CloseResult(alive, ptr, ambient, <<>>, FALSE)

\* A Close that gives up at the first error.
HeldUntilError(r, held) == held /\ ~r.err

\* `if s.client != nil`: a field is closed when it is held, whatever the
\* fields closed before it returned.
FieldHeld(r, held) == held

CloseField(t, r, c, o) ==
    /\ Legal(o, TRUE)
    /\ c.calls = <<>> => o = "ok"
    /\ alive' = c.alive
    /\ ptr' = c.ptr
    /\ ambient' = c.ambient
    /\ ecalls' = c.calls
    /\ faults' = IF c.err THEN faults - 1 ELSE faults
    /\ Moves(t, [r EXCEPT !.err = r.err \/ c.err,
                          !.msg = IF ~r.err /\ c.err THEN c.calls[Len(c.calls)].f
                                  ELSE r.msg,
                          !.trace = @ \o c.calls])

Uint8ServiceClose(t) ==
    /\ Ready(t)
    /\ \E i \in UReady, o \in Binary :
        /\ CloseField(t, [Begin("Close", i) EXCEPT !.pc = "cCli"],
                      IF FieldHeld(Begin("Close", i), usvc[i].public) THEN Uint8PublicKeyClose(K("upk", i), o)
                      ELSE NoClose, o)
        /\ usvc' = [usvc EXCEPT ![i].public = FALSE]
    /\ opsLeft' = opsLeft - 1
    /\ UNCHANGED <<wrappers, holder, bsvc, crashed>>

Uint8ServiceCloseClient(t) ==
    /\ At(t, "cCli")
    /\ \E o \in Binary :
        LET i == task[t].sv
        IN  /\ CloseField(t, [task[t] EXCEPT !.pc = "cSrv"],
                          IF FieldHeld(task[t], usvc[i].client) THEN Uint8ClientKeyClose(K("uck", i), o)
                          ELSE NoClose, o)
            /\ usvc' = [usvc EXCEPT ![i].client = FALSE]
    /\ UNCHANGED <<wrappers, holder, bsvc, opsLeft, crashed>>

Uint8ServiceCloseServer(t) ==
    /\ At(t, "cSrv")
    /\ \E o \in Binary, l \in RunsOn(t) :
        LET i == task[t].sv
        IN  /\ ~FieldHeld(task[t], usvc[i].server) => l = CHOOSE m \in RunsOn(t) : TRUE
            /\ CloseField(t, [task[t] EXCEPT !.pc = "ret"],
                          IF FieldHeld(task[t], usvc[i].server) THEN Uint8ServerKeyClose(K("usk", i), o, l)
                          ELSE NoClose, o)
            /\ usvc' = [usvc EXCEPT ![i].server = FALSE]
    /\ UNCHANGED <<wrappers, holder, bsvc, opsLeft, crashed>>

(***************************************************************************)
(* BooleanService: construction and Close (client, then server).           *)
(***************************************************************************)
FreeBSvc == {i \in BSvcs : bsvc[i].st = "none"}

NextBSvc == CHOOSE i \in FreeBSvc : \A j \in FreeBSvc : i <= j

\* NewBooleanService: GenerateBooleanKeys and the BooleanService struct.
NewBooleanService(t) ==
    /\ Ready(t)
    /\ FreeBSvc # {}
    /\ \E o \in Binary :
        LET i == NextBSvc
            ks == {K("bck", i), K("bsk", i)}
        IN  /\ Legal(o, TRUE)
            /\ ecalls' = <<Call("boolean_gen_keys_with_default_parameters", NoKey, 0, o)>>
            /\ faults' = Spend(o, TRUE)
            /\ Moves(t, Returned(Begin("NewBooleanService", i), check(o)))
            /\ alive' = IF check(o) THEN alive ELSE alive \cup ks
            /\ ptr' = IF check(o) THEN ptr ELSE ptr \cup ks
            /\ wrappers' = IF check(o) THEN wrappers ELSE wrappers \cup ks
            /\ bsvc' = [bsvc EXCEPT ![i] =
                          IF check(o) THEN [NoSvc EXCEPT !.st = "failed"]
                          ELSE [st |-> "ok", client |-> TRUE, server |-> TRUE,
                                public |-> FALSE]]
    /\ opsLeft' = opsLeft - 1
    /\ UNCHANGED <<ambient, holder, usvc, crashed>>

BooleanServiceClose(t) ==
    /\ Ready(t)
    /\ \E i \in BReady, o \in Binary :
        /\ CloseField(t, [Begin("BClose", i) EXCEPT !.pc = "bcSrv"],
                      IF FieldHeld(Begin("BClose", i), bsvc[i].client) THEN ClientKeyClose(K("bck", i), o)
                      ELSE NoClose, o)
        /\ bsvc' = [bsvc EXCEPT ![i].client = FALSE]
    /\ opsLeft' = opsLeft - 1
    /\ UNCHANGED <<wrappers, holder, usvc, crashed>>

BooleanServiceCloseServer(t) ==
    /\ At(t, "bcSrv")
    /\ \E o \in Binary :
        LET i == task[t].sv
        IN  /\ CloseField(t, [task[t] EXCEPT !.pc = "ret"],
                          IF FieldHeld(task[t], bsvc[i].server) THEN ServerKeyClose(K("bsk", i), o)
                          ELSE NoClose, o)
            /\ bsvc' = [bsvc EXCEPT ![i].server = FALSE]
    /\ UNCHANGED <<wrappers, holder, usvc, opsLeft, crashed>>

(***************************************************************************)
(* Close called on a wrapper from outside the services: by a caller of the *)
(* binding on a nil wrapper, or by the finalizer every wrapper is given,   *)
(* which the runtime runs once nothing refers to the wrapper any more.     *)
(***************************************************************************)
ServiceField(k) ==
    CASE k.k = "uck" -> usvc[k.s].client
      [] k.k = "usk" -> usvc[k.s].server
      [] k.k = "upk" -> usvc[k.s].public
      [] k.k = "bck" -> bsvc[k.s].client
      [] k.k = "bsk" -> bsvc[k.s].server
      [] k.k = "dpk" -> FALSE

\* A key wrapper is referred to by the field of its service, by
\* defaultUint8ServerKeyHolder, or by a call in progress on it.
Reachable(k) ==
    \/ ServiceField(k)
    \/ k.k = "usk" /\ holder = k.s
    \/ \E t \in Tasks : task[t].pc # "idle" /\ task[t].kp = k

KeyKinds == {"bck", "bsk", "uck", "usk", "upk", "dpk"}

CloseName(kind) ==
    CASE kind = "bck" -> "ClientKey.Close"
      [] kind = "bsk" -> "ServerKey.Close"
      [] kind = "uck" -> "Uint8ClientKey.Close"
      [] kind = "usk" -> "Uint8ServerKey.Close"
      [] kind \in {"upk", "dpk"} -> "Uint8PublicKey.Close"

CtCloseName(tag) == IF tag = BoolTag THEN "Ciphertext.Close" ELSE "Uint8Ciphertext.Close"

HandleCloses ==
    {CloseName(kind) : kind \in KeyKinds} \cup {CtCloseName(tag) : tag \in {BoolTag, Uint8Tag}}

\* ClientKey.Close, ServerKey.Close, Uint8ClientKey.Close,
\* Uint8ServerKey.Close, Uint8PublicKey.Close on wrapper k; recv records
\* whether k held a handle when Close was called.
KeyWrapperClose(t, kind) ==
    /\ Ready(t)
    /\ \E k \in {NoKey} \cup {w \in wrappers : w.k = kind /\ ~Reachable(w)},
          o \in Binary, l \in RunsOn(t) :
        LET c == CASE kind = "bck" -> ClientKeyClose(k, o)
                   [] kind = "bsk" -> ServerKeyClose(k, o)
                   [] kind = "uck" -> Uint8ClientKeyClose(k, o)
                   [] kind \in {"upk", "dpk"} -> Uint8PublicKeyClose(k, o)
                   [] kind = "usk" -> Uint8ServerKeyClose(k, o, l)
        IN  /\ (kind # "usk" \/ c.calls = <<>>) => l = CHOOSE m \in RunsOn(t) : TRUE
            /\ CloseField(t, [Begin(CloseName(kind), 0) EXCEPT
                                !.pc = "ret", !.kp = k, !.recv = k \in ptr], c, o)
            /\ wrappers' = wrappers \ {k}
    /\ opsLeft' = opsLeft - 1
    /\ UNCHANGED <<holder, usvc, bsvc, crashed>>

\* Ciphertext.Close, Uint8Ciphertext.Close on a nil wrapper, or on a wrapper
\* of the operation that has just returned.
CiphertextWrapperClose(t, tag) ==
    /\ Ready(t)
    /\ \E ct \in {NoCt} \cup {h \in {done.lhs, done.rhs, done.out} :
                               /\ h.st # "none"
                               /\ done.op \in UOps \cup BOps
                               /\ Tag(done.op) = tag},
          o \in Binary :
        /\ Legal(o, TRUE)
        /\ ct.st # "live" => o = "ok"
        /\ ecalls' = CloseCalls(tag, ct, o)
        /\ faults' = faults - Failed(ct, o)
        /\ Moves(t, [Begin(CtCloseName(tag), 0) EXCEPT
                       !.pc = "ret", !.lhs = ct, !.out = CiphertextClose(ct, o),
                       !.recv = ct.st = "live", !.err = Failed(ct, o) = 1])
    /\ opsLeft' = opsLeft - 1
    /\ UNCHANGED <<wrappers, alive, ptr, ambient, holder, usvc, bsvc, crashed>>

(***************************************************************************)
(* The functions of the binding called by themselves, by a caller that     *)
(* holds key wrappers (nil, or a wrapper of a service, released or not)    *)
(* and ciphertext wrappers (nil, released, or holding a handle).  nilArg   *)
(* records that one of the handles passed was Nil.                         *)
(***************************************************************************)
KeyKind(op) ==
    CASE op \in {"Encrypt", "Decrypt", "NewUint8PublicKey"} -> "uck"
      [] op = "EncryptWithPublic" -> "upk"
      [] op \in {"EncryptBool", "DecryptBool"} -> "bck"
      [] op \in BGates -> "bsk"

KeyArgs(op) == {NoKey} \cup {w \in wrappers : w.k = KeyKind(op)}

\* A function that goes on to the engine without looking at its ciphertexts.
Unchecked(r) == r

\* The nil check of the ciphertext wrappers a function is given.
CtChecked(r) ==
    IF r.pc = "finish" THEN r
    ELSE IF NilCt(r.lhs) \/ (r.op \notin Unary /\ NilCt(r.rhs))
    THEN FailWith(r, "ciphertext is nil")
    ELSE r

Direct(op, k, c1, c2, nilArg) ==
    [Begin(op, k.s) EXCEPT !.direct = TRUE, !.lhs = c1, !.rhs = c2, !.nilArg = nilArg]

\* EncryptUint8 / EncryptUint8Public / EncryptBool, to the nil check of the
\* key
CallEncrypt(t, ops, vals) ==
    /\ Ready(t)
    /\ \E op \in ops, v \in vals :
        \E k \in KeyArgs(op) :
            Started(t, KeyChecked([Direct(op, k, NoCt, NoCt, Nil(k)) EXCEPT !.val = v],
                                  k # NoKey, k, "call"), <<>>, 0)

\* DecryptUint8 / DecryptBool and ServerKey.And / Or / Xor / Not, to the nil
\* checks of the key and then of the ciphertexts
CallKeyed(t, ops, cts) ==
    /\ Ready(t)
    /\ \E op \in ops, c1 \in cts, c2 \in cts :
        \E k \in KeyArgs(op) :
            /\ op \in Unary => c2 = c1
            /\ Started(t, CtChecked(KeyChecked(
                             Direct(op, k, c1, IF op \in Unary THEN NoCt ELSE c2,
                                    Nil(k) \/ NilCt(c1) \/ NilCt(c2)),
                             k # NoKey, k, "call")), <<>>, 0)

\* Uint8Add / Uint8BitAnd / Uint8BitXor, to the nil checks of the
\* ciphertexts and then of withServerKey on defaultUint8ServerKey()
CallUint8Binary(t, ops, cts) ==
    /\ Ready(t)
    /\ \E op \in ops, c1 \in cts, c2 \in cts :
        LET sk == defaultUint8ServerKey
            withKey == ~NilCt(c1) /\ ~NilCt(c2)
        IN  Started(t, KeyChecked(CtChecked(
                         [Direct(op, sk, c1, c2, Nil(sk) \/ NilCt(c1) \/ NilCt(c2))
                            EXCEPT !.nilKey = withKey /\ Nil(sk)]),
                         sk # NoKey, sk, "bind"), <<>>, 0)

\* Ciphertext.Serialize / Uint8Ciphertext.Uint8Serialize
CallSerialize(t, ops, cts) ==
    /\ Ready(t)
    /\ \E op \in ops, c \in cts, o \in May(TRUE), empty \in BOOLEAN :
        LET tag == IF op = "Serialize" THEN BoolTag ELSE Uint8Tag
            sr == SerializeBuffer(tag, c, o,
                                  IF empty THEN <<>> ELSE EngineSerialize(tag, c))
            r == Direct(op, NoKey, c, NoCt, NilCt(c))
        IN  /\ sr.calls = <<>> => o = "ok"
            /\ (sr.calls = <<>> \/ check(o)) => ~empty
            /\ Started(t, IF sr.err
                           THEN FailWith(r, IF sr.calls = <<>> THEN "ciphertext is nil"
                                            ELSE sr.calls[1].f)
                           ELSE [r EXCEPT !.pc = "finish", !.res = sr.res],
                       On(sr.calls, "lhs"), IF check(o) THEN 1 ELSE 0)

\* NewUint8PublicKey(client) on a wrapper of the caller's: the public key it
\* makes is the caller's, kept in no service.
CallNewUint8PublicKey(t) ==
    /\ Ready(t)
    /\ \E ck \in KeyArgs("NewUint8PublicKey"), o \in May(TRUE) :
        LET p == NewUint8PublicKey(ck, ptr, o)
            pk == K("dpk", ck.s)
            r == Direct("NewUint8PublicKey", ck, NoCt, NoCt, Nil(ck))
        IN  /\ p.calls # <<>> => pk \notin wrappers
            /\ p.calls = <<>> => o = "ok"
            /\ ecalls' = p.calls
            /\ faults' = IF p.calls # <<>> /\ check(o) THEN faults - 1 ELSE faults
            /\ Moves(t, [Returned(r, p.err) EXCEPT
                           !.trace = p.calls,
                           !.msg = IF ~p.err THEN ""
                                   ELSE IF p.calls = <<>> THEN "key is nil"
                                   ELSE "public_key_new"])
            /\ alive' = IF p.err THEN alive ELSE alive \cup {pk}
            /\ ptr' = IF p.err THEN ptr ELSE ptr \cup {pk}
            /\ wrappers' = IF p.err THEN wrappers ELSE wrappers \cup {pk}
    /\ opsLeft' = opsLeft - 1
    /\ UNCHANGED <<ambient, holder, usvc, bsvc, crashed>>

(***************************************************************************)
(* The process: goroutines construct Uint8Services, encrypt and add on     *)
(* them and close them, in any interleaving, the engine failing at most    *)
(* MaxFaults times on valid input.                                         *)
(***************************************************************************)
Init ==
    /\ alive = {}
    /\ ptr = {}
    /\ wrappers = {}
    /\ ambient = [l \in Lanes |-> NoKey]
    /\ holder = 0
    /\ usvc = [i \in USvcs |-> NoSvc]
    /\ bsvc = [i \in BSvcs |-> NoSvc]
    /\ task = [t \in Tasks |-> IdleTask]
    /\ faults = MaxFaults
    /\ opsLeft = MaxOps
    /\ ecalls = <<>>
    /\ done = IdleTask
    /\ crashed = FALSE

\* The ciphertext the callers hold: of 200 under the first service's key.
Held == {Wire(Uint8Tag, 1, 200)}

Next ==
    \E t \in Tasks :
        \/ GenerateUint8Keys(t)
        \/ NewUint8Service(t)
        \/ Uint8ServiceEncrypt(t, {"Encrypt"}, {200})
        \/ EncryptUint8(t)
        \/ Uint8ServiceBinary(t, {"Add"}, Held)
        \/ withServerKeyBind(t)
        \/ withServerKeyFn(t)
        \/ Uint8ServiceClose(t)
        \/ Uint8ServiceCloseClient(t)
        \/ Uint8ServiceCloseServer(t)

Spec == Init /\ [][Next]_vars

(***************************************************************************)
(* One caller after another: both services, every method, every kind of    *)
(* input, and Close on wrappers.                                           *)
(***************************************************************************)
InitSeq ==
    /\ alive = {}
    /\ ptr = {}
    /\ wrappers = {}
    /\ ambient = [l \in Lanes |-> NoKey]
    /\ holder = 0
    /\ usvc = [i \in USvcs |-> NoSvc]
    /\ bsvc = [i \in BSvcs |-> NoSvc]
    /\ task = [t \in Tasks |-> IdleTask]
    /\ faults = MaxFaults
    /\ opsLeft = MaxOps
    /\ ecalls = <<>>
    /\ done = IdleTask
    /\ crashed = FALSE

\* What callers send as ciphertexts: ciphertexts of the first service, the
\* empty string, a string that is not base64, and a ciphertext of the other
\* family.
NotBase64 == <<1, 2, 3>>
UIn == {Wire(Uint8Tag, 1, 200), <<>>, NotBase64, Wire(BoolTag, 1, 1)}
BIn == {Wire(BoolTag, 1, 1), <<>>, NotBase64, Wire(Uint8Tag, 1, 200)}

NextSeq ==
    \/ GenerateUint8Keys(1)
    \/ NewUint8Service(1)
    \/ Uint8ServiceEncrypt(1, {"Encrypt", "EncryptWithPublic"}, {200, 100})
    \/ EncryptUint8(1)
    \/ EncryptUint8Public(1)
    \/ Uint8ServiceDecrypt(1, UIn)
    \/ DecryptUint8(1)
    \/ Uint8ServiceBinary(1, UBinary, UIn)
    \/ withServerKeyBind(1)
    \/ withServerKeyFn(1)
    \/ Uint8ServiceClose(1)
    \/ Uint8ServiceCloseClient(1)
    \/ Uint8ServiceCloseServer(1)
    \/ NewBooleanService(1)
    \/ BooleanServiceEncrypt(1)
    \/ EncryptBool(1)
    \/ BooleanServiceDecrypt(1, BIn)
    \/ DecryptBool(1)
    \/ BooleanServiceGate(1, BGates, BIn)
    \/ And(1)
    \/ Or(1)
    \/ Xor(1)
    \/ Not(1)
    \/ BooleanServiceClose(1)
    \/ BooleanServiceCloseServer(1)
    \/ \E kind \in KeyKinds : KeyWrapperClose(1, kind)
    \/ \E tag \in {BoolTag, Uint8Tag} : CiphertextWrapperClose(1, tag)

SpecSeq == InitSeq /\ [][NextSeq]_vars

(***************************************************************************)
(* One caller of the binding after another, beside the services: every     *)
(* function that takes a handle, called with a nil wrapper, a released     *)
(* wrapper and a wrapper that holds a handle.                              *)
(***************************************************************************)
HeldCts(tag, v) ==
    {NoCt, [st |-> "freed", key |-> 1, val |-> v, tried |-> TRUE],
     EngineDeserialize(<<tag, 1, v>>)}

NextBinding ==
    \/ GenerateUint8Keys(1)
    \/ NewUint8Service(1)
    \/ Uint8ServiceClose(1)
    \/ Uint8ServiceCloseClient(1)
    \/ Uint8ServiceCloseServer(1)
    \/ NewBooleanService(1)
    \/ BooleanServiceClose(1)
    \/ BooleanServiceCloseServer(1)
    \/ CallEncrypt(1, {"Encrypt", "EncryptWithPublic", "EncryptBool"}, {1})
    \/ CallKeyed(1, {"Decrypt"}, HeldCts(Uint8Tag, 200))
    \/ CallKeyed(1, BGates \cup {"DecryptBool"}, HeldCts(BoolTag, 1))
    \/ CallUint8Binary(1, UBinary, HeldCts(Uint8Tag, 200))
    \/ CallSerialize(1, {"Uint8Serialize"}, HeldCts(Uint8Tag, 200))
    \/ CallSerialize(1, {"Serialize"}, HeldCts(BoolTag, 1))
    \/ CallNewUint8PublicKey(1)
    \/ EncryptUint8(1)
    \/ EncryptUint8Public(1)
    \/ DecryptUint8(1)
    \/ EncryptBool(1)
    \/ DecryptBool(1)
    \/ And(1)
    \/ Or(1)
    \/ Xor(1)
    \/ Not(1)
    \/ withServerKeyBind(1)
    \/ withServerKeyFn(1)

SpecBinding == Init /\ [][NextBinding]_vars

(***************************************************************************)
(* Concurrent Adds on one shared Uint8Service, constructed on some lane,   *)
(* the engine never failing: the k-th Add started is given operands of     *)
(* its own.                                                                *)
(***************************************************************************)
InitAdds ==
    \E l0 \in Lanes :
        /\ alive = {K("uck", 1), K("usk", 1), K("upk", 1)}
        /\ ptr = alive
        /\ wrappers = alive
        /\ ambient = [l \in Lanes |-> IF l = l0 THEN K("usk", 1) ELSE NoKey]
        /\ holder = 1
        /\ usvc = [i \in USvcs |-> IF i = 1
                                   THEN [st |-> "ok", client |-> TRUE,
                                         server |-> TRUE, public |-> TRUE]
                                   ELSE NoSvc]
        /\ bsvc = [i \in BSvcs |-> NoSvc]
        /\ task = [t \in Tasks |-> IdleTask]
        /\ faults = 0
        /\ opsLeft = MaxOps
        /\ ecalls = <<>>
        /\ done = IdleTask
        /\ crashed = FALSE

AddOperands(k) == {Wire(Uint8Tag, 1, (100 + 50 * k) % Byte), Wire(Uint8Tag, 1, 7 * k)}

NextAdds ==
    \E t \in Tasks :
        \/ Uint8ServiceBinary(t, {"Add"}, AddOperands(opsLeft))
        \/ withServerKeyBind(t)
        \/ withServerKeyFn(t)

SpecAdds == InitAdds /\ [][NextAdds]_vars

(***************************************************************************)
(* Properties.                                                             *)
(***************************************************************************)
ServiceOps == UOps \cup BOps

Handles(r) == {r.lhs, r.rhs, r.out}

\* C1: in every interleaving of service operations and a service Close, no
\* call into the engine is given a key handle that has been destroyed.
C1_NoDestroyedHandle == \A j \in 1..Len(ecalls) : ~ecalls[j].dangling

\* C2: an integer binary operation whose set_server_key succeeded has run
\* unset_server_key on the same lane by the time it returns, whether the
\* primitive succeeded or failed.
C2_UnbindOnBindLane ==
    (done.op \in UBinary /\ done.bindLane # 0) => done.unbindLane = done.bindLane

\* C2 witness: an Add has returned the primitive's error after a bind.
C2_PrimitiveFailed == done.op \in UBinary /\ done.bindLane # 0 /\ done.err

\* C3: of concurrent Adds on one shared Uint8Service none is ever stuck (one
\* that is bound has its lane to run the primitive on; one that is not has
\* a lane to bind on, or waits for a lane held by one that is bound), and
\* each returns without error a ciphertext that decrypts to the sum modulo
\* 256 of its own two operands.
C3_AddsIndependent ==
    /\ \A t \in Tasks :
        /\ task[t].pc = "fn" => RunsOn(t) # {}
        /\ task[t].pc = "bind" => (RunsOn(t) # {} \/ \E u \in Tasks : task[u].pc = "fn")
    /\ done.op = "Add" =>
        /\ ~done.err
        /\ Plain(EngineDeserialize(DecodeString(done.res)), done.sv)
              = AddU8(EngineDeserialize(DecodeString(done.in1)).val,
                      EngineDeserialize(DecodeString(done.in2)).val)

\* C3 witness: an Add whose sum wrapped around has returned while another Add
\* is between its bind and its unbind.
C3_ReturnedWhileOtherBound ==
    /\ done.op = "Add"
    /\ ~done.err
    /\ EngineDeserialize(DecodeString(done.in1)).val
         + EngineDeserialize(DecodeString(done.in2)).val >= Byte
    /\ \E t \in Tasks : task[t].pc = "fn"

\* C4: the server key an Add/BitAnd/BitXor of a Uint8Service binds is the
\* one generated at that service's construction.
C4_BindsOwnKey ==
    (done.op \in UBinary /\ done.bindLane # 0) => done.boundKey = K("usk", done.sv)

\* C5 as stated: an integer server key is the ambient key of at most one
\* lane at any moment.
C5_OneLanePerKey ==
    \A l, m \in Lanes : (ambient[l] # NoKey /\ ambient[l] = ambient[m]) => l = m

\* C5 as the code has it: no two integer binary operations are between bind
\* and unbind on the same lane at the same moment; the same key may be
\* registered on several lanes at once.
C5_OneBoundOperationPerLane ==
    \A t, u \in Tasks :
        (t # u /\ task[t].pc = "fn" /\ task[u].pc = "fn")
            => task[t].bindLane # task[u].bindLane

\* C5 witness: two operations are between bind and unbind with the same key.
C5_SameKeyOnTwoLanes ==
    \E t, u \in Tasks :
        /\ t # u
        /\ task[t].pc = "fn"
        /\ task[u].pc = "fn"
        /\ task[t].boundKey = task[u].boundKey

\* C6: a lane on which no integer binary operation is between bind and
\* unbind has no ambient key: every registration has been undone there.
C6_IdleLaneUnbound ==
    \A l \in Lanes :
        (\A t \in Tasks : ~(task[t].pc = "fn" /\ task[t].bindLane = l))
            => ambient[l] = NoKey

\* C7: set_server_key is never called on a lane that has an ambient key.
C7_NoBindWhileBound ==
    \A j \in 1..Len(ecalls) :
        ecalls[j].f = "set_server_key" => ecalls[j].prior = NoKey

C9_FailedConstructionReleases ==
    (done.op = "NewUint8Service" /\ done.err)
        => \A kind \in {"uck", "usk", "upk"} : K(kind, done.sv) \notin alive

\* C10: Close on a nil wrapper or on a wrapper whose handle has been
\* released returns no error, makes no call into the engine and changes
\* nothing, for each of the seven wrapper types.
C10_CloseIdempotent ==
    [][(done'.op \in HandleCloses /\ ~done'.recv)
          => /\ ~done'.err
             /\ ecalls' = <<>>
             /\ UNCHANGED <<alive, ptr, ambient, holder, usvc, bsvc, faults, crashed>>]_vars

\* C10 witness: Close has been called on a key wrapper whose handle had been
\* released before.
C10_ClosedReleased ==
    done.op \in HandleCloses /\ ~done.recv /\ done.kp # NoKey

\* C11: a function of the binding that is handed a Nil key or a Nil
\* ciphertext (a nil wrapper, or a wrapper whose ptr is nil) returns an
\* error in the step it is called in: the engine is not called and no
\* handle comes into being.
C11_NilHandleRefused ==
    [][(done'.direct /\ done'.nilArg)
          => /\ done'.err
             /\ done'.trace = <<>>
             /\ ecalls' = <<>>
             /\ done'.out = NoCt
             /\ alive' = alive
             /\ wrappers' = wrappers]_vars

\* A function of the integer family handed a Nil ciphertext beside a live
\* one has refused it.
C11_NilCiphertextPassed ==
    /\ done.direct
    /\ done.op \in UBinary
    /\ done.lhs.st = "live"
    /\ NilCt(done.rhs)
    /\ done.msg = "ciphertext is nil"

(***************************************************************************)
(* C12: operands that are no base64 text.                                  *)
(***************************************************************************)
BadWire(s) == s = <<>> \/ DecodeString(s) = B64Error

\* Decrypt and the homomorphic operations of both services.
TakesCiphertext == {"Decrypt", "DecryptBool"} \cup BGates \cup UBinary

\* The operand of the operation r that was refused as text, if one was: lhs
\* is looked at first, and rhs only once lhs has been deserialized.
RefusedOperand(r) ==
    IF BadWire(r.in1) THEN "lhs"
    ELSE IF r.op \notin Unary /\ r.lhs.st # "none" /\ BadWire(r.in2) THEN "rhs"
    ELSE "none"

RefusedAsText(r) ==
    /\ ~r.direct
    /\ r.op \in TakesCiphertext
    /\ RefusedOperand(r) # "none"
    /\ r.err
    /\ \A n \in DOMAIN r.trace :
        /\ r.trace[n].arg # RefusedOperand(r)
        /\ r.trace[n].f \notin {"LockOSThread", "set_server_key"}
    /\ r.rhs.st = "none"
    /\ r.out.st = "none"

C13_NilBindNoEffect ==
    [][(done'.op \in UBinary /\ done'.nilKey)
          => /\ done'.err
             /\ done'.msg = "key is nil"
             /\ done'.trace = <<>>
             /\ ecalls' = <<>>
             /\ done'.bindLane = 0
             /\ done'.callLane = 0
             /\ done'.out = NoCt
             /\ ambient' = ambient]_vars

\* An integer operation was started on two live ciphertexts after the
\* server key the holder refers to had been closed, while a lane still had
\* an ambient key, and has returned.
C13_BindOnClosedKey ==
    /\ done.op \in UBinary
    /\ done.nilKey
    /\ holder # 0
    /\ \E l \in Lanes : ambient[l] # NoKey

(***************************************************************************)
(* One caller after another on services whose engine does not fail: the    *)
(* caller encrypts values, evaluates on ciphertexts of the first service   *)
(* of each family, and sends back for decryption what the operation before *)
(* returned.                                                               *)
(***************************************************************************)
InitValues ==
    /\ alive = {}
    /\ ptr = {}
    /\ wrappers = {}
    /\ ambient = [l \in Lanes |-> NoKey]
    /\ holder = 0
    /\ usvc = [i \in USvcs |-> NoSvc]
    /\ bsvc = [i \in BSvcs |-> NoSvc]
    /\ task = [t \in Tasks |-> IdleTask]
    /\ faults = 0
    /\ opsLeft = MaxOps
    /\ ecalls = <<>>
    /\ done = IdleTask
    /\ crashed = FALSE

\* The plaintexts callers use.
Vals == {1, 100, 200, 255}
Bools == {0, 1}

NextValues ==
    \/ GenerateUint8Keys(1)
    \/ NewUint8Service(1)
    \/ Uint8ServiceEncrypt(1, {"Encrypt", "EncryptWithPublic"}, Vals)
    \/ EncryptUint8(1)
    \/ EncryptUint8Public(1)
    \/ Uint8ServiceDecrypt(1, Sent)
    \/ DecryptUint8(1)
    \/ Uint8ServiceBinary(1, UBinary, {Wire(Uint8Tag, 1, v) : v \in Vals})
    \/ withServerKeyBind(1)
    \/ withServerKeyFn(1)
    \/ NewBooleanService(1)
    \/ BooleanServiceEncrypt(1)
    \/ EncryptBool(1)
    \/ BooleanServiceDecrypt(1, Sent)
    \/ DecryptBool(1)
    \/ BooleanServiceGate(1, BGates, {Wire(BoolTag, 1, v) : v \in Bools})
    \/ And(1)
    \/ Or(1)
    \/ Xor(1)
    \/ Not(1)

SpecValues == InitValues /\ [][NextValues]_vars

Decrypts == {"Decrypt", "DecryptBool"}

\* An operation that made a ciphertext and returned its serialization.
Produced(d) == ~d.direct /\ d.op \in UOps \cup BOps /\ ~d.err /\ d.res # <<>>

\* C14: what a service returned for a ciphertext c (its serialization in
\* base64), sent back to a service of the same family, is deserialized into
\* a handle of the same ciphertext: c itself has been released, the new
\* handle is live, it has c's key and plaintext, and Decrypt returns what c
\* decrypts to under the client key used.
C14_RoundTrip ==
    [][LET r == IF task'[1].pc = "idle" THEN done' ELSE task'[1]
       IN  /\ (/\ Produced(done)
               /\ task[1].pc = "idle"
               /\ r.op \in Decrypts
               /\ Tag(r.op) = Tag(done.op)
               /\ r.in1 = done.res)
                 => /\ done.out.st = "freed"
                    /\ r.lhs.st # "none"
                    /\ r.lhs.key = done.out.key
                    /\ r.lhs.val = done.out.val
           /\ (done'.op \in Decrypts /\ ~done'.err)
                 => done'.plain = Plain(done'.lhs, done'.sv)]_vars

\* Decrypt, given back the ciphertext an operation before it returned, has
\* returned the plaintext 200.
C14_SentBackDecrypted ==
    /\ done.op = "Decrypt"
    /\ ~done.err
    /\ done.sent.op = "Encrypt"
    /\ done.in1 = Wire(Uint8Tag, 1, 200)
    /\ done.lhs.st = "freed"
    /\ done.plain = 200

GateName(op) ==
    CASE op = "And" -> "boolean_server_key_and"
      [] op = "Or" -> "boolean_server_key_or"
      [] op = "Xor" -> "boolean_server_key_xor"
      [] op = "Not" -> "boolean_server_key_not"

TruthTable(op, a, b) ==
    CASE op = "And" -> IF a = 1 /\ b = 1 THEN 1 ELSE 0
      [] op = "Or" -> IF a = 1 \/ b = 1 THEN 1 ELSE 0
      [] op = "Xor" -> IF a # b THEN 1 ELSE 0
      [] op = "Not" -> IF a = 1 THEN 0 ELSE 1

\* The calls of an operation that are neither part of the codec nor a
\* release.
Evaluations(r) ==
    SelectSeq(r.trace, LAMBDA c : c.arg = "")

\* C15: through the boolean service, with enc v what EncryptBoolToBase64
\* returns for v: DecryptBoolFromBase64(enc v) = v, and for all a, b
\* AndBase64(enc a, enc b) = enc (a AND b), OrBase64 = enc (a OR b),
\* XorBase64 = enc (a XOR b), NotBase64(enc a) = enc (NOT a); each method
\* calls its own gate of the engine once, on its first operand as lhs and
\* its second as rhs.
C15_TruthTables ==
    /\ (done.op = "EncryptBool" /\ ~done.err)
          => done.res = Wire(BoolTag, done.sv, done.val)
    /\ \A a \in Bools :
          (done.op = "DecryptBool" /\ ~done.err /\ done.in1 = Wire(BoolTag, done.sv, a))
             => done.plain = a
    /\ \A a, b \in Bools :
          (/\ done.op \in BGates
           /\ ~done.err
           /\ done.in1 = Wire(BoolTag, done.sv, a)
           /\ done.op # "Not" => done.in2 = Wire(BoolTag, done.sv, b))
             => /\ done.res = Wire(BoolTag, done.sv, TruthTable(done.op, a, b))
                /\ done.lhs.val = a
                /\ done.op # "Not" => done.rhs.val = b
                /\ Len(Evaluations(done)) = 1
                /\ Evaluations(done)[1].f = GateName(done.op)

\* XorBase64(enc 1, enc 0) has returned enc 1.
C15_XorOfOneAndZero ==
    /\ done.op = "Xor"
    /\ done.in1 = Wire(BoolTag, 1, 1)
    /\ done.in2 = Wire(BoolTag, 1, 0)
    /\ done.res = Wire(BoolTag, 1, 1)

\* C16: through an integer service, with enc v what Encrypt returns for v:
\* Decrypt(enc v) = v, and for all a, b Add(enc a, enc b) = enc ((a + b)
\* mod 256) (200 + 100 gives 44), BitAnd(enc a, enc b) = enc (a & b)
\* (200 & 100 = 64), BitXor(enc a, enc b) = enc (a ^ b).
C16_Arithmetic ==
    /\ AddU8(200, 100) = 44 /\ BitAndU8(200, 100) = 64 /\ BitXorU8(200, 100) = 172
    /\ (done.op = "Encrypt" /\ ~done.err)
          => done.res = Wire(Uint8Tag, done.sv, done.val)
    /\ \A a \in Vals :
          (done.op = "Decrypt" /\ ~done.err /\ done.in1 = Wire(Uint8Tag, done.sv, a))
             => done.plain = a
    /\ \A a, b \in Vals :
          (/\ done.op \in UBinary
           /\ ~done.err
           /\ done.in1 = Wire(Uint8Tag, done.sv, a)
           /\ done.in2 = Wire(Uint8Tag, done.sv, b))
             => done.res = Wire(Uint8Tag, done.sv,
                                CASE done.op = "Add" -> (a + b) % 256
                                  [] done.op = "BitAnd" -> BitAndU8(a, b)
                                  [] done.op = "BitXor" -> BitXorU8(a, b))

\* C17: for every v, when a caller sends what EncryptWithPublic(v) returned
\* back to Decrypt of the same service, Decrypt returns v.
C17_PublicRoundTrip ==
    (/\ done.op = "Decrypt"
     /\ done.sent.op = "EncryptWithPublic"
     /\ done.sent.sv = done.sv)
        => ~done.err /\ done.plain = done.sent.val

\* Decrypt has returned on what EncryptWithPublic(255) returned.
C17_PublicDecrypted ==
    /\ done.op = "Decrypt"
    /\ done.sent = [op |-> "EncryptWithPublic", sv |-> 1, val |-> 255]
    /\ done.plain = 255

PublicKeys == {k \in alive : k.k \in {"upk", "dpk"}}

\* C18: a public key comes into being only in a step in which the client
\* key it is derived from is allocated, and public_key_new is handed no
\* destroyed client key; NewUint8PublicKey on a Nil client key (a nil
\* wrapper, or one that has been released) returns an error, calls nothing
\* and makes no public key.
C18_DerivedFromOpenClientKey ==
    [][/\ \A pk \in PublicKeys' \ PublicKeys : K("uck", pk.s) \in alive
       /\ \A n \in DOMAIN ecalls' :
             ecalls'[n].f = "public_key_new" => ~ecalls'[n].dangling
       /\ (done'.op = "NewUint8PublicKey" /\ done'.nilArg)
             => /\ done'.err
                /\ ecalls' = <<>>
                /\ PublicKeys' = PublicKeys
                /\ wrappers' = wrappers]_vars

\* NewUint8PublicKey has been called on the client key wrapper of a service
\* after the service released it.
C18_ReleasedClientKeyRefused ==
    /\ done.op = "NewUint8PublicKey"
    /\ done.sv = 1
    /\ K("uck", 1) \in wrappers \ ptr
    /\ done.nilArg
    /\ done.err

\* What an operation does after a primitive has failed: the deferred
\* unbind and unpin and the release of its handles.
Unwinding ==
    {"unset_server_key", "UnlockOSThread", "boolean_destroy_ciphertext",
     "fhe_uint8_destroy"}

\* The primitives whose failure an operation returns.
Primitive(c) == c.f \notin Unwinding \cup {"LockOSThread", "destroy_dynamic_buffer"}

\* C19: within one operation of a service no primitive is called twice for
\* the same operand, and once a primitive (deserialize, encrypt, decrypt, a
\* gate or an arithmetic operation, set_server_key, serialize) has failed,
\* the operation calls nothing more than unbind, unpin and the release of
\* its handles, and returns the error of that primitive.
C19_NoRetry ==
    (~done.direct /\ done.op \in UOps \cup BOps)
        => /\ \A m, n \in DOMAIN done.trace :
                 (done.trace[m].f = done.trace[n].f
                  /\ done.trace[m].arg = done.trace[n].arg) => m = n
           /\ \A n \in DOMAIN done.trace :
                 (Primitive(done.trace[n]) /\ ~done.trace[n].ok)
                    => /\ done.err
                       /\ done.msg = done.trace[n].f
                       /\ \A m \in DOMAIN done.trace :
                             m > n => done.trace[m].f \in Unwinding

\* An Add whose engine call failed has unbound, unpinned, released both
\* operands and returned that failure.
C19_AddFailedOnce ==
    /\ done.op = "Add"
    /\ done.msg = "fhe_uint8_add"
    /\ done.lhs.st = "freed"
    /\ done.rhs.st = "freed"
    /\ Len(done.trace) = 9

\* The steps of withServerKey an operation has made, once it has passed the
\* nil check: pin, bind, the engine's operation, unbind, unpin, all on one
\* lane; when bind failed only pin, bind, unpin.
InOrder(r) ==
    LET e == Evaluations(r)
        names == [n \in DOMAIN e |-> e[n].f]
    IN  /\ \A m, n \in DOMAIN e : e[m].lane = e[n].lane
        /\ \/ /\ names = <<"LockOSThread", "set_server_key", HomName(r.op),
                           "unset_server_key", "UnlockOSThread">>
              /\ e[2].ok
           \/ /\ names = <<"LockOSThread", "set_server_key", "UnlockOSThread">>
              /\ ~e[2].ok
              /\ r.err

\* No ambient key is registered on the lane when it is unpinned: either
\* unset_server_key has been called on it since it was pinned, or none was
\* registered when the step began and none has been since.
UnpinnedUnbound(r) ==
    LET e == Evaluations(r)
    IN  \A n \in DOMAIN e :
            e[n].f = "UnlockOSThread"
                => \/ \E m \in 1..(n - 1) :
                          e[m].f = "unset_server_key" /\ e[m].lane = e[n].lane
                   \/ /\ e[n].prior = NoKey
                      /\ \A m \in 1..(n - 1) : e[m].f = "set_server_key" => ~e[m].ok

\* C20: an integer binary operation that has passed the nil check of
\* withServerKey has pinned, bound, called the engine, unbound and unpinned
\* in this order, or, bind failing, pinned, tried to bind and unpinned; and
\* whenever it unpinned, the lane had no ambient key registered.
C20_PinBindCallUnbindUnpin ==
    (done.op \in UBinary /\ Evaluations(done) # <<>>)
        => InOrder(done) /\ UnpinnedUnbound(done)

HomNames == {HomName(op) : op \in UBinary}

\* The task that called a homomorphic primitive was pinned and stayed on
\* its lane: the call ran on the lane LockOSThread pinned it to, under the
\* key it bound there, and the unbind ran on that lane too.
CallOnPinnedLane(c) ==
    /\ done.op \in UBinary
    /\ done.bindLane # 0
    /\ c.lane = done.bindLane
    /\ done.callLane = done.bindLane
    /\ done.unbindLane = done.bindLane
    /\ c.prior = done.boundKey
    /\ c.prior # NoKey
    /\ \E n \in DOMAIN done.trace :
          done.trace[n].f = "LockOSThread" /\ done.trace[n].lane = c.lane

\* C21: whenever fhe_uint8_add / bitand / bitxor has been called, the task
\* that called it was pinned to the lane of the call from bind to unbind,
\* and the server key registered on that lane had not been released.
C21_CallPinnedUnderLiveKey ==
    \A n \in DOMAIN ecalls :
        ecalls[n].f \in HomNames
            => CallOnPinnedLane(ecalls[n]) /\ ecalls[n].prior \in alive

\* The operations that act on a key of their service's own.
Keyless == {"Encrypt", "EncryptWithPublic", "Decrypt"} \cup BOps

Binding == {"LockOSThread", "UnlockOSThread", "set_server_key", "unset_server_key"}

\* C22: no step of Uint8Service.Encrypt, EncryptWithPublic or Decrypt, or
\* of an operation of a BooleanService, pins its task or calls
\* set_server_key or unset_server_key: it leaves every lane's ambient key as
\* it was, and the operation returns without ever having been on a lane of
\* its own.
C22_KeylessOperationsBindNothing ==
    [][LET r == IF done'.op # "none" THEN done' ELSE task'[1]
       IN  (r.op \in Keyless /\ ~r.direct)
              => /\ ambient' = ambient
                 /\ \A n \in DOMAIN ecalls' : ecalls'[n].f \notin Binding
                 /\ \A n \in DOMAIN r.trace : r.trace[n].f \notin Binding
                 /\ r.lane = 0
                 /\ r.bindLane = 0
                 /\ r.unbindLane = 0]_vars

\* A gate of the boolean service has returned its result while a lane had
\* an integer server key registered.
C22_GateBesideAmbientKey ==
    /\ done.op = "Xor"
    /\ ~done.err
    /\ \E l \in Lanes : ambient[l] # NoKey

\* C23: no lane's ambient slot references a server key that has been
\* destroyed: when Uint8ServerKey.Close has destroyed a key, the
\* registrations of that key are gone from every lane.
C23_NoLaneReferencesDestroyedKey ==
    \A l \in Lanes : ambient[l] # NoKey => ambient[l] \in alive

\* Close of the service of operation r has returned: every key field of
\* the struct is nil.
ClosedService(r) ==
    IF r.op \in UOps
    THEN /\ usvc[r.sv].st = "ok"
         /\ ~usvc[r.sv].public /\ ~usvc[r.sv].client /\ ~usvc[r.sv].server
    ELSE /\ bsvc[r.sv].st = "ok"
         /\ ~bsvc[r.sv].client /\ ~bsvc[r.sv].server

\* The ciphertexts r was given were well formed: they have been
\* deserialized.
WellFormed(r) ==
    /\ r.op \in TakesCiphertext => r.lhs.st # "none"
    /\ r.op \in BGates \cup UBinary /\ r.op \notin Unary => r.rhs.st # "none"

\* C24: an operation started on a service whose Close has returned, with
\* well-formed ciphertexts, returns an error at its nil check: it never gets
\* to an encrypt, decrypt, gate, set_server_key or arithmetic call.
C24_ClosedServiceRefuses ==
    [][LET r == IF done'.op # "none" THEN done' ELSE task'[1]
       IN  (/\ task[1].pc = "idle"
            /\ r.op \in UOps \cup BOps
            /\ ~r.direct
            /\ ClosedService(r)
            /\ WellFormed(r))
              => /\ done'.op = r.op
                 /\ r.err
                 /\ \A n \in DOMAIN r.trace : r.trace[n].arg # ""]_vars

\* Close of a service, and the destroy primitives in the order Close calls
\* them.
ServiceCloses == {"Close", "BClose"}

DestroyRank(f) ==
    CASE f = "public_key_destroy" -> 1
      [] f \in {"client_key_destroy", "boolean_destroy_client_key"} -> 2
      [] f \in {"server_key_destroy", "boolean_destroy_server_key"} -> 3
      [] OTHER -> 0

\* The key fields of service sv of the family of operation op, as
\* <<kind, held>> pairs.
KeyFields(op, sv, us, bs) ==
    IF op = "Close"
    THEN {<<"upk", us[sv].public>>, <<"uck", us[sv].client>>, <<"usk", us[sv].server>>}
    ELSE {<<"bck", bs[sv].client>>, <<"bsk", bs[sv].server>>}

CtDestroys == {CtDestroyName(tag) : tag \in {BoolTag, Uint8Tag}}

CtCloses == {CtCloseName(tag) : tag \in {BoolTag, Uint8Tag}}

\* The successful and the failed destroy calls an operation made on its
\* ciphertext `a`.
Destroyed(r, a, ok) ==
    {n \in DOMAIN r.trace :
        r.trace[n].f \in CtDestroys /\ r.trace[n].arg = a /\ r.trace[n].ok = ok}

\* The ciphertext wrapper of operation r is as its destroy calls left it.
ReleasedOnce(r, a, ct) ==
    /\ Cardinality(Destroyed(r, a, TRUE)) <= 1
    /\ ct.st = "freed" <=> Destroyed(r, a, TRUE) # {}
    /\ (ct.st = "live" /\ ct.tried) <=> Destroyed(r, a, FALSE) # {}
    /\ Destroyed(r, a, TRUE) # {} => Destroyed(r, a, FALSE) = {}

\* C26: the destroy primitive is called on a key only while its wrapper's
\* ptr is set and the key has not been destroyed; when it succeeds ptr
\* becomes nil, when it fails ptr stays and Close returns the error; ptr
\* becomes nil in no other way.  An operation destroys each of its
\* ciphertexts at most once, and a Close called on a ciphertext wrapper
\* afterwards calls destroy only when the handle is still set.
C26_NoDoubleFree ==
    [][LET errs == \/ done'.op # "none" /\ done'.err
                   \/ \E t \in Tasks : task'[t] # task[t] /\ task'[t].err
       IN  /\ \A n \in DOMAIN ecalls' :
                LET c == ecalls'[n]
                IN  DestroyRank(c.f) > 0
                      => /\ c.h \in ptr
                         /\ ~c.dangling
                         /\ c.ok => c.h \notin ptr' /\ c.h \notin alive'
                         /\ ~c.ok => c.h \in ptr' /\ c.h \in alive' /\ errs
           /\ \A k \in (ptr \ ptr') \cup (alive \ alive') :
                \E n \in DOMAIN ecalls' :
                    /\ DestroyRank(ecalls'[n].f) > 0
                    /\ ecalls'[n].h = k
                    /\ ecalls'[n].ok
           /\ done'.op \in UOps \cup BOps
                => /\ ReleasedOnce(done', "lhs", done'.lhs)
                   /\ ReleasedOnce(done', "rhs", done'.rhs)
                   /\ ReleasedOnce(done', "out", done'.out)
           /\ done'.op \in CtCloses
                => /\ ecalls' # <<>> <=> done'.lhs.st = "live"
                   /\ Len(ecalls') <= 1
                   /\ \A n \in DOMAIN ecalls' :
                        /\ ecalls'[n].f \in CtDestroys
                        /\ ecalls'[n].ok <=> done'.out.st = "freed"
                        /\ ~ecalls'[n].ok <=> (done'.out.st = "live" /\ done'.err)
                   /\ ecalls' = <<>> => done'.out = done'.lhs /\ ~done'.err]_vars

\* C26 witness: the finalizer has destroyed a key whose destroy had failed
\* in the Close of its service.
C26_FinalizerAfterFailedClose ==
    /\ done.op \in HandleCloses \ CtCloses
    /\ done.recv
    /\ ~done.err
    /\ done.kp # NoKey
    /\ done.kp \notin alive
    /\ done.kp \notin ptr
    /\ IF done.kp.k \in {"bck", "bsk"} THEN bsvc[done.kp.s].st = "ok"
       ELSE usvc[done.kp.s].st = "ok"

SerializeOps == {"Serialize", "Uint8Serialize"}

SerializeNames == {"boolean_serialize_ciphertext", "fhe_uint8_serialize"}

\* C27: Serialize and Uint8Serialize called on a Nil handle call nothing;
\* otherwise they call the engine's serialize once, and destroy_dynamic_buffer
\* once after it when it succeeded, also when the buffer came back empty, and
\* not at all when it failed; they never call the destroy of the ciphertext,
\* whose handle is as it was.
C27_BufferFreedOnce ==
    (done.op \in SerializeOps /\ done.direct)
        => LET tr == done.trace
               ser == {n \in DOMAIN tr : tr[n].f \in SerializeNames}
               free == {n \in DOMAIN tr : tr[n].f = "destroy_dynamic_buffer"}
           IN  /\ done.nilArg <=> done.lhs.st # "live"
               /\ done.nilArg => tr = <<>> /\ done.err
               /\ ~done.nilArg => Cardinality(ser) = 1
               /\ Cardinality(free) = Cardinality({n \in ser : tr[n].ok})
               /\ \A n \in free : n - 1 \in ser /\ tr[n - 1].ok
               /\ (\E n \in ser : ~tr[n].ok) => done.err /\ free = {}
               /\ free # {} => ~done.err
               /\ \A n \in DOMAIN tr : tr[n].f \notin CtDestroys
               /\ ~done.nilArg => done.lhs.st = "live" /\ ~done.lhs.tried

\* C27 witness: Uint8Serialize has returned an empty slice for a buffer the
\* engine gave back empty, and has destroyed the buffer.
C27_EmptyBufferFreed ==
    /\ done.op = "Uint8Serialize"
    /\ done.direct
    /\ ~done.err
    /\ done.res = <<>>
    /\ Len(done.trace) = 2
    /\ done.trace[2].f = "destroy_dynamic_buffer"

=============================================================================
